---- MODULE Spec2Model ----
(***************************************************************************)
(* Model of the line alignment engine of react-diff-comment-viewer         *)
(* (computeLineInformation and its helpers, src/src/CommentBox.tsx 440-764).*)
(* Strings are sequences of one-character strings; a line is a string      *)
(* without "\n"; a text is a string.                                       *)
(***************************************************************************)
EXTENDS Integers, Sequences, FiniteSets, TLC

(* ----------------------------- bounds ---------------------------------- *)
(* Most lines an input text is written from, and the largest linesOffset.   *)
MaxLines == 2
MaxOffset == 2
(* Most lines of a text of the edit-script checks, and most calls in a run. *)
MaxScriptLines == 3
MaxCalls == 3
(* Most lines of a text above and below its middle, and most clicks on one  *)
(* fold block between two resets.                                           *)
MaxFoldLines == 12
MaxClicks == 3

(* Line contents the input texts are built from: an empty line, a          *)
(* whitespace-only line, two different words, and a word with leading /    *)
(* trailing whitespace.                                                    *)
LineVals ==
  { <<>>, <<" ">>, <<"a">>, <<"b">>, <<" ", "a">>, <<"a", " ">> }

(* --------------------------- JS string helpers ------------------------- *)
NL == "\n"

IsWhitespace(c) == c \in {" ", NL}

RECURSIVE trimRight(_)
trimRight(s) ==
  IF s = <<>> THEN s
  ELSE IF IsWhitespace(s[Len(s)]) THEN trimRight(SubSeq(s, 1, Len(s) - 1))
  ELSE s

RECURSIVE trimLeft(_)
trimLeft(s) ==
  IF s = <<>> THEN s
  ELSE IF IsWhitespace(s[1]) THEN trimLeft(Tail(s))
  ELSE s

trim(s) == trimLeft(trimRight(s))

(* String.prototype.split('\n'): the empty string splits into [""].       *)
RECURSIVE split(_)
split(s) ==
  IF \A k \in 1..Len(s) : s[k] # NL THEN <<s>>
  ELSE LET p == CHOOSE k \in 1..Len(s) :
                  s[k] = NL /\ \A m \in 1..(k - 1) : s[m] # NL
       IN  <<SubSeq(s, 1, p - 1)>> \o split(SubSeq(s, p + 1, Len(s)))

(* Array.prototype.join('\n') : how a text is written from its lines.      *)
RECURSIVE join(_)
join(ls) ==
  IF Len(ls) = 0 THEN <<>>
  ELSE IF Len(ls) = 1 THEN ls[1]
  ELSE ls[1] \o <<NL>> \o join(Tail(ls))

(* The value JS yields for an absent property or an out-of-range index.    *)
Undefined == <<"undefined">>
NoNumber == -1
NoType == "undefined"

(* arr[k] with a 0-based index, undefined outside the array.               *)
At(arr, k) == IF k >= 0 /\ k < Len(arr) THEN arr[k + 1] ELSE Undefined

Reverse(s) == [k \in 1..Len(s) |-> s[Len(s) + 1 - k]]

(* ------------------------------ DiffType ------------------------------- *)
DEFAULT == "DEFAULT"
ADDED == "ADDED"
REMOVED == "REMOVED"

(* ---------------------------- constructLines --------------------------- *)
constructLines(value) ==
  LET lines == split(value)
      isAllEmpty == \A k \in 1..Len(lines) : lines[k] = <<>>
      popped == SubSeq(lines, 1, Len(lines) - 1)
  IN  IF isAllEmpty
        THEN IF Len(lines) = 2 THEN <<>> ELSE popped
        ELSE LET afterPop == IF lines[Len(lines)] = <<>> THEN popped ELSE lines
             IN  IF lines[1] = <<>> THEN Tail(afterPop) ELSE afterPop

(* --------------------------- line equivalence -------------------------- *)
public_isBlankLine(s) == \A k \in 1..Len(s) : IsWhitespace(s[k])

public_lineEqual(a, b) ==
  \/ a = b
  \/ (public_isBlankLine(a) /\ public_isBlankLine(b))
  \/ trimRight(a) = trimRight(b)

(* Math.max of two numbers.                                                *)
Max(a, b) == IF a >= b THEN a ELSE b

(* ------------------------ public_diffLinesInOrder ---------------------- *)
(* The LCS table dp[i][j] of the first loop nest (lines 504-516).          *)
(* Cells 0..j of row i of the table, from row i - 1 (prev): the inner loop *)
(* over j. A row is the tuple of its cells, cell j at position j + 1.      *)
RECURSIVE LcsRow(_, _, _, _, _)
LcsRow(oldLines, newLines, prev, i, j) ==
  IF j = 0 THEN <<0>>
  ELSE LET left == LcsRow(oldLines, newLines, prev, i, j - 1)
       IN  Append(left,
                  IF public_lineEqual(oldLines[i], newLines[j])
                    THEN prev[j] + 1
                  ELSE Max(prev[j + 1], left[j]))

(* Rows 0..i of the table: the outer loop over i.                          *)
RECURSIVE LcsRows(_, _, _)
LcsRows(oldLines, newLines, i) ==
  IF i = 0 THEN <<[j \in 1..(Len(newLines) + 1) |-> 0]>>
  ELSE LET above == LcsRows(oldLines, newLines, i - 1)
       IN  Append(above,
                  LcsRow(oldLines, newLines, above[i], i, Len(newLines)))

LcsTable(oldLines, newLines) ==
  LET rows == LcsRows(oldLines, newLines, Len(oldLines))
  IN  [i \in 0..Len(oldLines), j \in 0..Len(newLines) |-> rows[i + 1][j + 1]]

(* flush(): moves a non-empty current chunk to chunks.                     *)
flush(acc) ==
  IF acc.hasCurrent /\ acc.current.value # <<>>
    THEN [chunks |-> Append(acc.chunks, acc.current), hasCurrent |-> FALSE,
          current |-> acc.current]
    ELSE acc

(* push(line, added, removed): prepends the line to the current chunk when  *)
(* the chunk has the same kind, and starts a new chunk otherwise.           *)
push(acc, line, added, removed) ==
  LET lineWithNl == line \o <<NL>>
  IN  IF acc.hasCurrent /\ acc.current.added = added
           /\ acc.current.removed = removed
        THEN [acc EXCEPT !.current.value = lineWithNl \o @]
        ELSE [flush(acc) EXCEPT !.hasCurrent = TRUE,
                !.current = [value |-> lineWithNl, added |-> added,
                             removed |-> removed]]

(* Variant of PreferInsert that takes the delete on equal scores.          *)
PreferInsertStrict(dp, i, j) == dp[i, j - 1] > dp[i - 1, j]

(* Line 558: on equal scores the insert is taken.                          *)
PreferInsert(dp, i, j) == dp[i, j - 1] >= dp[i - 1, j]

(* The operation the loop body (lines 537-572) takes at position (i, j):    *)
(* kind, the line pushed, and the position it moves to.                     *)
BacktrackOp(kind, line, i, j) == [kind |-> kind, line |-> line, i |-> i, j |-> j]

BacktrackStep(oldLines, newLines, dp, i, j) ==
  IF i > 0 /\ j > 0 /\ public_lineEqual(oldLines[i], newLines[j])
    THEN BacktrackOp("match", oldLines[i], i - 1, j - 1)
  ELSE IF i > 0 /\ j > 0 /\ i >= 2
          /\ public_lineEqual(oldLines[i - 1], newLines[j])
    THEN BacktrackOp("delete", oldLines[i], i - 1, j)
  ELSE IF i > 0 /\ j > 0 /\ j >= 2
          /\ public_lineEqual(oldLines[i], newLines[j - 1])
    THEN BacktrackOp("insert", newLines[j], i, j - 1)
  ELSE IF j > 0 /\ (i = 0 \/ PreferInsert(dp, i, j))
    THEN BacktrackOp("insert", newLines[j], i, j - 1)
  ELSE IF i > 0
    THEN BacktrackOp("delete", oldLines[i], i - 1, j)
  ELSE IF j > 0
    THEN BacktrackOp("insert", newLines[j], i, j - 1)
  ELSE BacktrackOp("break", <<>>, i, j)

(* The backtracking while loop, from (i, j) down to (0, 0): each operation  *)
(* is pushed with its (added, removed) flags.                               *)
RECURSIVE Backtrack(_, _, _, _, _, _)
Backtrack(oldLines, newLines, dp, i, j, acc) ==
  IF ~(i > 0 \/ j > 0) THEN acc
  ELSE LET op == BacktrackStep(oldLines, newLines, dp, i, j)
       IN  IF op.kind = "break" THEN acc
           ELSE Backtrack(oldLines, newLines, dp, op.i, op.j,
                          push(acc, op.line, op.kind = "insert",
                               op.kind = "delete"))

NoChunk == [value |-> <<>>, added |-> FALSE, removed |-> FALSE]

public_diffLinesInOrder(oldLines, newLines) ==
  LET dp == LcsTable(oldLines, newLines)
      start == [chunks |-> <<>>, hasCurrent |-> FALSE, current |-> NoChunk]
      acc == Backtrack(oldLines, newLines, dp, Len(oldLines), Len(newLines),
                       start)
  IN  Reverse(flush(acc).chunks)

(* The operations of the loop of lines 536-573 in the order taken, each    *)
(* with the position (i, j) it was taken at: a match consumes old line i   *)
(* and new line j, a delete old line i, an insert new line j.              *)
RECURSIVE BacktrackOps(_, _, _, _, _)
BacktrackOps(oldLines, newLines, dp, i, j) ==
  IF ~(i > 0 \/ j > 0) THEN <<>>
  ELSE LET op == BacktrackStep(oldLines, newLines, dp, i, j)
       IN  IF op.kind = "break" THEN <<>>
           ELSE <<[kind |-> op.kind, i |-> i, j |-> j]>>
                  \o BacktrackOps(oldLines, newLines, dp, op.i, op.j)

(* Line 575: the operations in forward (top to bottom) order.              *)
EditScriptOf(oldLines, newLines) ==
  Reverse(BacktrackOps(oldLines, newLines, LcsTable(oldLines, newLines),
                       Len(oldLines), Len(newLines)))

(* ----------------------------- row records ----------------------------- *)
(* DiffInformation: an absent field holds NoNumber / NoType / Undefined.    *)
DiffInformation(lineNumber, type, value) ==
  [lineNumber |-> lineNumber, type |-> type, value |-> value]

(* Variant of EmptySide that is typed as an addition.                      *)
EmptySideAdded == DiffInformation(NoNumber, ADDED, Undefined)

(* const left / right: DiffInformation = {} (lines 613-614).               *)
EmptySide == DiffInformation(NoNumber, NoType, Undefined)

LineInformation(left, right) == [left |-> left, right |-> right]

Includes(list, x) == \E k \in 1..Len(list) : list[k] = x

(* Variant of Truthy that takes every value for truthy.                    *)
TruthyAlways(v) == TRUE

(* JS truthiness of a string-or-undefined value.                           *)
Truthy(v) == v # Undefined /\ v # <<>>

(* Variant of OriginalOr that always shows the diff chunk's line.           *)
OriginalOrChunkLine(lines, lineNumber, fallback) == fallback

(* lines[lineNumber - 1] !== undefined ? lines[lineNumber - 1] : fallback   *)
(* the displayed value is the original line when the index is in range.    *)
OriginalOr(lines, lineNumber, fallback) ==
  IF At(lines, lineNumber - 1) # Undefined
    THEN At(lines, lineNumber - 1)
    ELSE fallback

(* --------------------------- getLineInformation ------------------------ *)
(* env: the closure's constants oldLines, newLines, diffArray.             *)
(* st:  the closure's mutable variables leftLineNumber, rightLineNumber,   *)
(*      counter, diffLines, ignoreDiffIndexes; threw records a TypeError   *)
(*      raised by reading [0].right of an empty array.                     *)
RECURSIVE getLineInformation(_, _, _, _, _, _, _)
RECURSIVE mapLines(_, _, _, _, _, _, _, _, _)

(* One call of the map callback: [st, keep, row].                          *)
mapCallback(env, line, lineIndex, diffIndex, added, removed, evaluateOnlyFirstLine, st) ==
  IF Includes(st.ignoreDiffIndexes, <<diffIndex, lineIndex>>)
       \/ (evaluateOnlyFirstLine /\ lineIndex # 0)
    THEN [st |-> st, keep |-> FALSE, row |-> LineInformation(EmptySide, EmptySide)]
  ELSE IF added \/ removed
    THEN
      LET st1 == [st EXCEPT !.diffLines =
                    IF Includes(@, st.counter) THEN @ ELSE Append(@, st.counter)]
      IN  IF removed
            THEN
              LET leftNo == st1.leftLineNumber + 1
                  st2 == [st1 EXCEPT !.leftLineNumber = leftNo]
                  leftValue ==
                    OriginalOr(env.oldLines, leftNo,
                               IF line # <<>> THEN line ELSE <<" ">>)
                  hasNext == diffIndex + 1 < Len(env.diffArray)
                  nextDiff == env.diffArray[diffIndex + 2]
                  paired ==
                    /\ hasNext
                    /\ nextDiff.added
                    /\ Truthy(At(constructLines(nextDiff.value), lineIndex))
              IN  IF ~paired
                    THEN [st |-> [st2 EXCEPT !.counter = @ + 1],
                          keep |-> TRUE,
                          row |-> LineInformation(
                                    DiffInformation(leftNo, REMOVED, leftValue),
                                    EmptySide)]
                    ELSE
                      LET rec == getLineInformation(env, nextDiff.value,
                                    diffIndex, TRUE, FALSE, TRUE, st2)
                      IN  IF rec.rows = <<>>
                            THEN [st |-> [rec.st EXCEPT !.threw = TRUE],
                                  keep |-> FALSE,
                                  row |-> LineInformation(EmptySide, EmptySide)]
                            ELSE
                              LET r == rec.rows[1].right
                                  st3 == [rec.st EXCEPT !.ignoreDiffIndexes =
                                            Append(@, <<diffIndex + 1, lineIndex>>)]
                                  rightValue ==
                                    OriginalOr(env.newLines, r.lineNumber, r.value)
                                  same ==
                                    /\ Truthy(leftValue)
                                    /\ Truthy(rightValue)
                                    /\ (leftValue = rightValue
                                          \/ trim(leftValue) = trim(rightValue))
                              IN  [st |-> [st3 EXCEPT !.counter = @ + 1],
                                   keep |-> TRUE,
                                   row |-> LineInformation(
                                     DiffInformation(leftNo,
                                       IF same THEN DEFAULT ELSE REMOVED, leftValue),
                                     DiffInformation(r.lineNumber,
                                       IF same THEN DEFAULT ELSE r.type, rightValue))]
            ELSE
              LET rightNo == st1.rightLineNumber + 1
                  rightValue == OriginalOr(env.newLines, rightNo, line)
              IN  [st |-> [st1 EXCEPT !.rightLineNumber = rightNo,
                                      !.counter = @ + 1],
                   keep |-> TRUE,
                   row |-> LineInformation(EmptySide,
                             DiffInformation(rightNo, ADDED, rightValue))]
    ELSE
      LET leftNo == st.leftLineNumber + 1
          rightNo == st.rightLineNumber + 1
          leftValue == OriginalOr(env.oldLines, leftNo, line)
          rightValue == OriginalOr(env.newLines, rightNo, line)
      IN  [st |-> [st EXCEPT !.leftLineNumber = leftNo,
                             !.rightLineNumber = rightNo,
                             !.counter = @ + 1],
           keep |-> TRUE,
           row |-> LineInformation(DiffInformation(leftNo, DEFAULT, leftValue),
                                   DiffInformation(rightNo, DEFAULT, rightValue))]

(* lines.map(callback).filter(Boolean), from lineIndex on.                 *)
mapLines(env, lines, lineIndex, diffIndex, added, removed, evaluateOnlyFirstLine, st, rows) ==
  IF lineIndex >= Len(lines) \/ st.threw THEN [st |-> st, rows |-> rows]
  ELSE LET res == mapCallback(env, lines[lineIndex + 1], lineIndex, diffIndex,
                              added, removed, evaluateOnlyFirstLine, st)
       IN  mapLines(env, lines, lineIndex + 1, diffIndex, added, removed,
                    evaluateOnlyFirstLine, res.st,
                    IF res.keep THEN Append(rows, res.row) ELSE rows)

getLineInformation(env, value, diffIndex, added, removed, evaluateOnlyFirstLine, st) ==
  mapLines(env, constructLines(value), 0, diffIndex, added, removed,
           evaluateOnlyFirstLine, st, <<>>)

(* ------------------------------ backfill ------------------------------- *)
ExistingLeft(rows) ==
  {rows[k].left.lineNumber : k \in {m \in 1..Len(rows) :
      rows[m].left.lineNumber # NoNumber /\ rows[m].left.lineNumber # 0}}

ExistingRight(rows) ==
  {rows[k].right.lineNumber : k \in {m \in 1..Len(rows) :
      rows[m].right.lineNumber # NoNumber /\ rows[m].right.lineNumber # 0}}

(* for (i = from; i <= Len(lines); i++) if (!existing.has(i)) push(row(i)) *)
RECURSIVE BackfillLeft(_, _, _, _)
BackfillLeft(oldLines, existingLeft, i, rows) ==
  IF i > Len(oldLines) THEN rows
  ELSE BackfillLeft(oldLines, existingLeft, i + 1,
         IF i \notin existingLeft
           THEN Append(rows, LineInformation(
                  DiffInformation(i, REMOVED, oldLines[i]),
                  DiffInformation(NoNumber, DEFAULT, Undefined)))
           ELSE rows)

RECURSIVE BackfillRight(_, _, _, _)
BackfillRight(newLines, existingRight, i, rows) ==
  IF i > Len(newLines) THEN rows
  ELSE BackfillRight(newLines, existingRight, i + 1,
         IF i \notin existingRight
           THEN Append(rows, LineInformation(
                  DiffInformation(NoNumber, DEFAULT, Undefined),
                  DiffInformation(i, ADDED, newLines[i])))
           ELSE rows)

(* Variant of Backfill that appends no row.                                *)
BackfillNothing(oldLines, newLines, rows) == rows

Backfill(oldLines, newLines, rows) ==
  BackfillRight(newLines, ExistingRight(rows), 1,
    BackfillLeft(oldLines, ExistingLeft(rows), 1, rows))

(* ------------------------- computeLineInformation ---------------------- *)
(* Variant of OldLinesOf that splits the text as given.                    *)
OldLinesUntrimmed(oldString) == split(oldString)

OldLinesOf(oldString) == split(trimRight(oldString))
NewLinesOf(newString) == split(trimRight(newString))

Env(oldString, newString) ==
  [oldLines |-> OldLinesOf(oldString),
   newLines |-> NewLinesOf(newString),
   diffArray |-> public_diffLinesInOrder(OldLinesOf(oldString),
                                         NewLinesOf(newString))]

(* The closure variables as declared before the forEach.                   *)
InitialClosure(offset) ==
  [leftLineNumber |-> offset, rightLineNumber |-> offset, counter |-> 0,
   diffLines |-> <<>>, ignoreDiffIndexes |-> <<>>, threw |-> FALSE]

(* diffArray.forEach(...), from position index on: [st, rows].             *)
RECURSIVE forEachChunk(_, _, _, _)
forEachChunk(env, index, st, rows) ==
  IF index >= Len(env.diffArray) \/ st.threw THEN [st |-> st, rows |-> rows]
  ELSE LET c == env.diffArray[index + 1]
           res == getLineInformation(env, c.value, index, c.added, c.removed,
                                     FALSE, st)
       IN  forEachChunk(env, index + 1, res.st, rows \o res.rows)

(* The whole call: [lineInformation, diffLines, threw].                    *)
computeLineInformation(oldString, newString, offset) ==
  LET env == Env(oldString, newString)
      main == forEachChunk(env, 0, InitialClosure(offset), <<>>)
  IN  [lineInformation |->
         IF main.st.threw THEN <<>>
         ELSE Backfill(env.oldLines, env.newLines, main.rows),
       diffLines |-> main.st.diffLines,
       threw |-> main.st.threw]

(* ------------------------------ renderDiff ----------------------------- *)
(* p: this.props (splitView, commentRow, commentRowLineNumber,             *)
(* commentRowEndLineNumber, title); an undefined number is NoNumber.       *)
(* st: this.state. rows: lineInformation, indexed from 0 as in the code.   *)
(* A rendered node is a record of one shape; the fields that a kind of     *)
(* node does not have hold NoNumber / FALSE.                               *)
Node(kind) ==
  [kind |-> kind, index |-> NoNumber, trs |-> 1, inRange |-> FALSE,
   comment |-> FALSE, rowSpan |-> NoNumber, remainingNum |-> NoNumber,
   blockNumber |-> NoNumber, totalLines |-> NoNumber,
   leftBlockLineNumber |-> NoNumber, rightBlockLineNumber |-> NoNumber]

(* Lines 746-754: a right line number lies in the comment range.           *)
RightInRange(p, n) ==
  /\ n # NoNumber
  /\ IF p.commentRowEndLineNumber # NoNumber
       THEN n >= p.commentRowLineNumber /\ n <= p.commentRowEndLineNumber
       ELSE n = p.commentRowLineNumber

(* Lines 738-800; withNeighbours: lineIndex and allLines were passed.      *)
isInCommentRange(p, rows, i, withNeighbours) ==
  IF p.commentRowLineNumber = NoNumber THEN FALSE
  ELSE IF RightInRange(p, rows[i + 1].right.lineNumber) THEN TRUE
  ELSE IF rows[i + 1].right.lineNumber = NoNumber
    THEN /\ withNeighbours
         /\ \/ i > 0 /\ RightInRange(p, rows[i].right.lineNumber)
            \/ i < Len(rows) - 1 /\ RightInRange(p, rows[i + 2].right.lineNumber)
  ELSE FALSE

(* Lines 805-820: the indices of the rows in the comment range.            *)
CommentRangeIndices(p, rows) ==
  {i \in 0..(Len(rows) - 1) : isInCommentRange(p, rows, i, TRUE)}

commentRangeRowSpan(p, rows) ==
  IF p.splitView /\ p.commentRowEndLineNumber # NoNumber
    THEN Cardinality(CommentRangeIndices(p, rows))
    ELSE 0

Minimum(S) == CHOOSE x \in S : \A y \in S : x <= y
Maximum(S) == CHOOSE x \in S : \A y \in S : x >= y

(* null is NoNumber.                                                       *)
firstCommentRangeIndex(p, rows) ==
  IF CommentRangeIndices(p, rows) = {} THEN NoNumber
  ELSE Minimum(CommentRangeIndices(p, rows))

lastCommentRangeIndex(p, rows) ==
  IF CommentRangeIndices(p, rows) = {} THEN NoNumber
  ELSE Maximum(CommentRangeIndices(p, rows))

(* Lines 372-513: the <tr> of a row in split view, with its comment cell.  *)
renderSplitView(p, rows, i, overrideIsInCommentRange) ==
  LET right == rows[i + 1].right
      isFirstRowInCommentRange == i = firstCommentRangeIndex(p, rows)
      active == p.commentRow /\ p.commentRowLineNumber # NoNumber
      hasRightInRange == RightInRange(p, right.lineNumber)
      shouldShowComment ==
        /\ active
        /\ IF p.commentRowEndLineNumber # NoNumber
             THEN isFirstRowInCommentRange
             ELSE \/ hasRightInRange /\ right.lineNumber = p.commentRowLineNumber
                  \/ isFirstRowInCommentRange
  IN  [Node("row") EXCEPT
         !.index = i,
         !.inRange = active /\ (overrideIsInCommentRange \/ hasRightInRange),
         !.comment = shouldShowComment,
         !.rowSpan = IF ~shouldShowComment THEN NoNumber
                     ELSE IF p.commentRowEndLineNumber # NoNumber
                       THEN commentRangeRowSpan(p, rows)
                     ELSE IF Len(rows) # 0 THEN Len(rows) ELSE 10000]

(* Lines 523-610: a modified row is two <tr>, any other row one.           *)
renderInlineView(p, rows, i) ==
  [Node("row") EXCEPT
     !.index = i,
     !.inRange = isInCommentRange(p, rows, i, TRUE),
     !.trs = IF rows[i + 1].left.type = REMOVED /\ rows[i + 1].right.type = ADDED
               THEN 2 ELSE 1]

(* splitView ? this.renderSplitView(...) : this.renderInlineView(...)      *)
renderRow(p, rows, i, overrideIsInCommentRange) ==
  IF p.splitView THEN renderSplitView(p, rows, i, overrideIsInCommentRange)
  ELSE renderInlineView(p, rows, i)

RECURSIVE renderRows(_, _, _)
renderRows(p, rows, indices) ==
  IF indices = <<>> THEN <<>>
  ELSE <<renderRow(p, rows, indices[1], FALSE)>> \o renderRows(p, rows, Tail(indices))

(* Lines 627-706, called with the first and the last hidden row: the left  *)
(* number of the first, the right (else left) number of the last.          *)
renderSkippedLineIndicator(rows, remainingNum, blockNumber, hidden, totalLines) ==
  LET firstLine == rows[hidden[1] + 1]
      lastLine == rows[hidden[Len(hidden)] + 1]
  IN  [Node("fold") EXCEPT
         !.remainingNum = remainingNum,
         !.blockNumber = blockNumber,
         !.totalLines = totalLines,
         !.leftBlockLineNumber = firstLine.left.lineNumber,
         !.rightBlockLineNumber =
            IF lastLine.right.lineNumber # NoNumber THEN lastLine.right.lineNumber
            ELSE lastLine.left.lineNumber]

(* Variant of ExpandedCount that never finds a count.                      *)
ExpandedCountZero(st, id) == 0

(* (this.state.expandedBlocksCount && ...[foldBlockId]) || 0               *)
ExpandedCount(st, id) ==
  IF id \in DOMAIN st.expandedBlocksCount THEN st.expandedBlocksCount[id] ELSE 0

(* Variants of the slices: one element more, and from the wrong end.       *)
SliceFirstAndNext(arr, n) == SubSeq(arr, 1, n + 1)
SliceLastFromStart(arr, n) == SubSeq(arr, 1, n)

(* slice(0, n) and slice(-n) of an array.                                  *)
SliceFirst(arr, n) == SubSeq(arr, 1, n)
SliceLast(arr, n) == SubSeq(arr, Len(arr) - n + 1, Len(arr))

(* Lines 847-926 and 939-988: the nodes of a fold block that ends; above:  *)
(* the block is followed by a row of the comment range.                    *)
renderFoldBlock(p, st, rows, blockLines, foldBlockId, above) ==
  LET totalLines == Len(blockLines)
      expandedCount == ExpandedCount(st, foldBlockId)
      isFullyExpanded ==
        expandedCount >= totalLines \/ Includes(st.expandedBlocks, foldBlockId)
      remaining == totalLines - expandedCount
  IN  IF ~isFullyExpanded /\ totalLines > 0
        THEN IF expandedCount = 0
               THEN <<renderSkippedLineIndicator(rows, totalLines, foldBlockId,
                                                 blockLines, totalLines)>>
             ELSE IF above
               THEN <<renderSkippedLineIndicator(rows, remaining, foldBlockId,
                        SliceFirst(blockLines, remaining), totalLines)>>
                    \o renderRows(p, rows, SliceLast(blockLines, expandedCount))
             ELSE renderRows(p, rows, SliceFirst(blockLines, expandedCount))
                  \o <<renderSkippedLineIndicator(rows, remaining, foldBlockId,
                         SliceLast(blockLines, remaining), totalLines)>>
      ELSE IF isFullyExpanded THEN renderRows(p, rows, blockLines)
      ELSE <<>>

(* Variant of InlineCommentAfter that follows the first line of the range. *)
InlineCommentAfterStart(p, rows, i) ==
  /\ ~p.splitView
  /\ p.commentRow
  /\ rows[i + 1].right.lineNumber = p.commentRowLineNumber

(* Line 1001: the inline comment row follows the row of the last line of   *)
(* the comment range.                                                      *)
InlineCommentAfter(p, rows, i) ==
  /\ ~p.splitView
  /\ p.commentRow
  /\ rows[i + 1].right.lineNumber # NoNumber
  /\ rows[i + 1].right.lineNumber =
       (IF p.commentRowEndLineNumber # NoNumber THEN p.commentRowEndLineNumber
        ELSE p.commentRowLineNumber)

(* Lines 828-1019: the forEach over the rows when commentRowLineNumber is  *)
(* set; blockLines: currentFoldBlockLines (empty when no block is open,    *)
(* its first element is foldBlockId).                                      *)
RECURSIVE foldLoop(_, _, _, _, _, _)
foldLoop(p, st, rows, i, blockLines, result) ==
  IF i >= Len(rows) THEN result
  ELSE IF ~isInCommentRange(p, rows, i, TRUE)
    THEN LET lines == Append(blockLines, i)
             isLastLine == i = Len(rows) - 1
             nextLineInRange ==
               ~isLastLine /\ isInCommentRange(p, rows, i + 1, FALSE)
         IN  IF isLastLine \/ nextLineInRange
               THEN foldLoop(p, st, rows, i + 1, <<>>,
                      result \o renderFoldBlock(p, st, rows, lines, lines[1],
                                                nextLineInRange))
               ELSE foldLoop(p, st, rows, i + 1, lines, result)
  ELSE LET closed ==
             IF blockLines # <<>>
               THEN renderFoldBlock(p, st, rows, blockLines, blockLines[1], TRUE)
               ELSE <<>>
           commentNode ==
             IF InlineCommentAfter(p, rows, i)
               THEN <<[Node("comment") EXCEPT !.index = i]>>
               ELSE <<>>
       IN  foldLoop(p, st, rows, i + 1, <<>>,
                    result \o closed \o <<renderRow(p, rows, i, TRUE)>>
                           \o commentNode)

(* Lines 711-1039: the nodes of the diff.                                  *)
renderDiff(p, st, rows) ==
  IF p.commentRowLineNumber # NoNumber
    THEN foldLoop(p, st, rows, 0, <<>>, <<>>)
    ELSE renderRows(p, rows, [k \in 1..Len(rows) |-> k - 1])

(* Variant of renderBody that shows the diff also when collapsed.          *)
renderBodyUncollapsed(p, st, rows) ==
  (IF p.title THEN <<Node("title")>> ELSE <<>>)
    \o (IF st.isCollapsed THEN <<Node("collapsed")>> ELSE <<>>)
    \o renderDiff(p, st, rows)

(* Lines 1063-1237: the children of <tbody>.                               *)
renderBody(p, st, rows) ==
  (IF p.title THEN <<Node("title")>> ELSE <<>>)
    \o (IF st.isCollapsed THEN <<Node("collapsed")>> ELSE renderDiff(p, st, rows))
    \o (IF ~st.isCollapsed /\ ~p.splitView /\ p.commentRow
           /\ p.commentRowLineNumber = NoNumber
          THEN <<Node("comment")>> ELSE <<>>)

(* ------------------------------ input texts ---------------------------- *)
LinesOfAtMost(vals, n) == UNION {[1..m -> vals] : m \in 1..n}

TextsOfAtMost(n) == {join(ls) : ls \in LinesOfAtMost(LineVals, n)}

Texts == TextsOfAtMost(MaxLines)

(* Longer texts over fewer line contents, for the edit script.             *)
ScriptLineVals == { <<>>, <<"a">>, <<"b">> }
ScriptTexts == {join(ls) : ls \in LinesOfAtMost(ScriptLineVals, MaxScriptLines)}

(* One-line texts, for sequences of calls and of renders.                  *)
CallTexts == ScriptLineVals

(* typeof of a prop value; a value that is no string carries no text.      *)
JSTypes == {"string", "number", "undefined", "object"}
PropValues ==
  [type : {"string"}, text : CallTexts]
    \cup [type : JSTypes \ {"string"}, text : {<<>>}]

(* ------------------------------ state machine -------------------------- *)
VARIABLES
  oldString, newString, linesOffset,   \* the arguments of the call
  pc,                                  \* "render", "renderThrew", "start",
                                       \* "forEach", "done", "threw"
  diffArray,                           \* result of public_diffLinesInOrder
  index,                               \* forEach position in diffArray
  closure,                             \* leftLineNumber, rightLineNumber, counter,
                                       \* diffLines, ignoreDiffIndexes
  mainRows,                            \* number of rows before the backfill
  lineInformation,                     \* the row sequence
  calls,                               \* calls / renders started so far
  returned,                            \* arguments and result of every call
                                       \* that has returned
  oldValueType, newValueType,          \* typeof props.oldValue / newValue
  viewerState,                         \* DiffViewer's this.state
  props,                               \* DiffViewer's this.props other than
                                       \* oldValue, newValue, linesOffset
  nodes,                               \* the children of <tbody> on screen
  handled                              \* the last handler call, its result, and
                                       \* the clicks and toggles before it

vars == <<oldString, newString, linesOffset, pc, diffArray, index, closure,
          mainRows, lineInformation, calls, returned, oldValueType,
          newValueType, viewerState, props, nodes, handled>>

(* What the engine never touches.                                          *)
view == <<props, nodes, handled>>

args == <<oldString, newString, linesOffset, oldValueType, newValueType>>

oldLines == OldLinesOf(oldString)
newLines == NewLinesOf(newString)

(* Variant of ClosureAtCall in which the ignore list outlives the call.    *)
ClosureKeepingIgnoreList(offset) ==
  [InitialClosure(offset) EXCEPT
     !.ignoreDiffIndexes = closure.ignoreDiffIndexes]

(* Lines 595-600: every call declares its closure variables afresh.        *)
ClosureAtCall(offset) == InitialClosure(offset)

(* The constructor's this.state (part_001 lines 132-136).                  *)
InitialViewerState ==
  [expandedBlocks |-> <<>>, expandedBlocksCount |-> <<>>, isCollapsed |-> FALSE]

(* part_001 lines 94-110: defaultProps; no comment row, no title.          *)
DefaultProps ==
  [splitView |-> TRUE, commentRow |-> FALSE, commentRowLineNumber |-> NoNumber,
   commentRowEndLineNumber |-> NoNumber, title |-> FALSE]

(* No handler has been called: no clicks on any block, no toggles.         *)
NothingHandled ==
  [name |-> "none", id |-> NoNumber, totalLines |-> NoNumber, result |-> FALSE,
   clicks |-> <<>>, shown |-> <<>>]

(* What no call and no render has touched yet.                             *)
NothingRendered ==
  /\ diffArray = <<>>
  /\ index = 0
  /\ closure = InitialClosure(linesOffset)
  /\ mainRows = 0
  /\ lineInformation = <<>>
  /\ calls = 1
  /\ returned = {}
  /\ viewerState = InitialViewerState
  /\ nodes = <<>>
  /\ handled = NothingHandled

(* The same for a viewer with the default props.                           *)
NothingComputed == NothingRendered /\ props = DefaultProps

(* A call of computeLineInformation on two strings.                        *)
InitCall(oldTexts, newTexts, offsets) ==
  /\ oldString \in oldTexts
  /\ newString \in newTexts
  /\ linesOffset \in offsets
  /\ oldValueType = "string"
  /\ newValueType = "string"
  /\ pc = "start"
  /\ NothingComputed

(* A call with the given linesOffset on any two texts.                     *)
InitWith(offsets) == InitCall(Texts, Texts, offsets)

(* linesOffset defaults to 0 (line 583).                                   *)
Init == InitWith({0})

InitOffset == InitWith(0..MaxOffset)

InitScript == InitCall(ScriptTexts, ScriptTexts, {0})

InitCalls == InitCall(CallTexts, CallTexts, {0})

(* old = [A, B, C] and new = [X, A, C] for pairwise non-equivalent lines.  *)
PairwiseDifferent(ls) ==
  \A m, n \in 1..Len(ls) : m # n => ~public_lineEqual(ls[m], ls[n])

InitTieBreak ==
  /\ \E q \in [1..4 -> LineVals] :
       /\ PairwiseDifferent(q)
       /\ oldString = join(<<q[1], q[2], q[3]>>)
       /\ newString = join(<<q[4], q[1], q[3]>>)
  /\ linesOffset = 0
  /\ oldValueType = "string"
  /\ newValueType = "string"
  /\ pc = "start"
  /\ NothingComputed

(* The first render of a viewer with any two prop values.                  *)
InitViewer ==
  /\ \E o, n \in PropValues :
       /\ oldString = o.text /\ oldValueType = o.type
       /\ newString = n.text /\ newValueType = n.type
  /\ linesOffset = 0
  /\ pc = "render"
  /\ NothingComputed

(* Lines 585-600: trim, split, diff, and the closure variables.            *)
Diff ==
  /\ pc = "start"
  /\ diffArray' = public_diffLinesInOrder(oldLines, newLines)
  /\ closure' = ClosureAtCall(linesOffset)
  /\ lineInformation' = <<>>
  /\ index' = 0
  /\ mainRows' = 0
  /\ pc' = "forEach"
  /\ UNCHANGED <<view, args, calls, returned, viewerState>>

(* Lines 714-719: one iteration of diffArray.forEach.                      *)
ForEach ==
  /\ pc = "forEach"
  /\ index < Len(diffArray)
  /\ LET env == [oldLines |-> oldLines, newLines |-> newLines,
                 diffArray |-> diffArray]
         c == diffArray[index + 1]
         res == getLineInformation(env, c.value, index, c.added, c.removed,
                                   FALSE, closure)
     IN  /\ closure' = res.st
         /\ lineInformation' = lineInformation \o res.rows
         /\ mainRows' = Len(lineInformation \o res.rows)
         /\ pc' = IF res.st.threw THEN "threw" ELSE "forEach"
  /\ index' = index + 1
  /\ UNCHANGED <<view, args, diffArray, calls, returned, viewerState>>

(* Lines 721-764: the backfill loops and the return.                       *)
BackfillAndReturn ==
  /\ pc = "forEach"
  /\ index = Len(diffArray)
  /\ lineInformation' = Backfill(oldLines, newLines, lineInformation)
  /\ returned' = returned \cup
       {[oldString |-> oldString, newString |-> newString,
         linesOffset |-> linesOffset,
         lineInformation |-> lineInformation',
         diffLines |-> closure.diffLines]}
  /\ pc' = "done"
  /\ UNCHANGED <<view, args, diffArray, index, closure, mainRows, calls,
                 viewerState>>

Next == Diff \/ ForEach \/ BackfillAndReturn

Spec == Init /\ [][Next]_vars

SpecOffset == InitOffset /\ [][Next]_vars

SpecScript == InitScript /\ [][Next]_vars

SpecTieBreak == InitTieBreak /\ [][Next]_vars

(* A further call of computeLineInformation after one has returned: only   *)
(* the arguments are new, what the earlier call left is still in memory.   *)
CallAgain ==
  /\ pc = "done"
  /\ calls < MaxCalls
  /\ oldString' \in CallTexts
  /\ newString' \in CallTexts
  /\ calls' = calls + 1
  /\ pc' = "start"
  /\ UNCHANGED <<view, linesOffset, oldValueType, newValueType, diffArray, index,
                 closure, mainRows, lineInformation, returned, viewerState>>

NextCalls == Next \/ CallAgain

SpecCalls == InitCalls /\ [][NextCalls]_vars

(* ------------------------------ DiffViewer ----------------------------- *)
(* Variant of BothStrings that tests oldValue only.                        *)
OldIsString(oldType, newType) == oldType = "string"

(* part_001 line 1054: typeof oldValue, newValue are both 'string'.        *)
BothStrings(oldType, newType) == oldType = "string" /\ newType = "string"

(* part_001 lines 1041-1057: render throws on a prop that is no string, and *)
(* otherwise renderDiff calls computeLineInformation on the props.          *)
Render ==
  /\ pc = "render"
  /\ pc' = IF BothStrings(oldValueType, newValueType) THEN "start"
           ELSE "renderThrew"
  /\ UNCHANGED <<view, args, diffArray, index, closure, mainRows, lineInformation,
                 calls, returned, viewerState>>

(* part_001 lines 205-209: toggleCollapse, followed by a new render.       *)
ToggleCollapse ==
  /\ pc = "done"
  /\ calls < MaxCalls
  /\ viewerState' = [viewerState EXCEPT !.isCollapsed = ~@]
  /\ calls' = calls + 1
  /\ pc' = "render"
  /\ UNCHANGED <<view, args, diffArray, index, closure, mainRows, lineInformation,
                 returned>>

(* The parent renders the viewer again with other oldValue / newValue.     *)
SetProps ==
  /\ pc = "done"
  /\ calls < MaxCalls
  /\ \E o, n \in PropValues :
       /\ oldString' = o.text /\ oldValueType' = o.type
       /\ newString' = n.text /\ newValueType' = n.type
  /\ calls' = calls + 1
  /\ pc' = "render"
  /\ UNCHANGED <<view, linesOffset, diffArray, index, closure, mainRows,
                 lineInformation, returned, viewerState>>

NextViewer == Render \/ ToggleCollapse \/ SetProps \/ Next

SpecViewer == InitViewer /\ [][NextViewer]_vars

(* ------------------------------ fold blocks ---------------------------- *)
(* part_001 line 180.                                                      *)
LINES_PER_EXPAND == 10


(* Variant of Min that takes its first argument.                           *)
MinFirst(a, b) == a

(* Math.min of two numbers.                                                *)
Min(a, b) == IF a <= b THEN a ELSE b

(* { ...m, [id]: count }                                                   *)
WithCount(m, id, count) ==
  [k \in DOMAIN m \cup {id} |-> IF k = id THEN count ELSE m[k]]

(* The fold blocks of a layout, as the indicators of the fully folded      *)
(* rendering name them: block id and totalLines.                           *)
FoldBlocks(p, rows) ==
  LET folded == renderDiff(p, InitialViewerState, rows)
  IN  {[id |-> folded[k].blockNumber, totalLines |-> folded[k].totalLines] :
         k \in {m \in DOMAIN folded : folded[m].kind = "fold"}}

(* The lines of the texts: pairwise different, without blanks.             *)
Letters == <<"a", "b", "c", "d", "e", "f", "g", "h", "i", "j">>
FoldLine(k) == <<Letters[(k \div 10) + 1], Letters[(k % 10) + 1]>>
FoldLines(first, count) == [k \in 1..count |-> FoldLine(first + k - 1)]

(* What lies between the lines above and the lines below: an unchanged     *)
(* line; with a modified line after it; with a removed line before it;     *)
(* two unchanged lines with three removed lines between them; a blank line *)
(* and an unchanged line.                                                  *)
Middles ==
  {[old |-> <<FoldLine(40)>>, new |-> <<FoldLine(40)>>],
   [old |-> <<FoldLine(40), FoldLine(41)>>, new |-> <<FoldLine(40), FoldLine(42)>>],
   [old |-> <<FoldLine(43), FoldLine(40)>>, new |-> <<FoldLine(40)>>],
   [old |-> <<FoldLine(40), FoldLine(43), FoldLine(44), FoldLine(45), FoldLine(41)>>,
    new |-> <<FoldLine(40), FoldLine(41)>>]}

(* The numbers of lines above and below the middle.                        *)
BlockSizes == {<<MaxFoldLines, MaxFoldLines>>, <<2, 2>>, <<0, 2>>}

(* The first render of a viewer with a comment row whose texts have lines  *)
(* above, a middle, and lines below, with a comment on the first line of   *)
(* the middle, on its first two lines, or without commentRowLineNumber.    *)
InitFold ==
  /\ \E sizes \in BlockSizes, middle \in Middles :
       /\ oldString = join(FoldLines(1, sizes[1]) \o middle.old
                             \o FoldLines(60, sizes[2]))
       /\ newString = join(FoldLines(1, sizes[1]) \o middle.new
                             \o FoldLines(60, sizes[2]))
       /\ \E splitView, title \in BOOLEAN :
            \E range \in {<<NoNumber, NoNumber>>, <<sizes[1] + 1, NoNumber>>,
                          <<sizes[1] + 1, sizes[1] + 2>>} :
              props = [splitView |-> splitView, commentRow |-> TRUE,
                       commentRowLineNumber |-> range[1],
                       commentRowEndLineNumber |-> range[2], title |-> title]
  /\ linesOffset = 0
  /\ oldValueType = "string"
  /\ newValueType = "string"
  /\ pc = "render"
  /\ NothingRendered

(* part_001 lines 1041-1237: render puts the title row and, unless         *)
(* collapsed, the nodes of renderDiff into <tbody>.                        *)
RenderDiff ==
  /\ pc = "done"
  /\ nodes' = renderBody(props, viewerState, lineInformation)
  /\ pc' = "rendered"
  /\ UNCHANGED <<args, diffArray, index, closure, mainRows, lineInformation,
                 calls, returned, viewerState, props, handled>>

(* The clicks on a block so far.                                           *)
Clicks(id) == IF id \in DOMAIN handled.clicks THEN handled.clicks[id] ELSE 0

(* part_001 lines 187-200: onBlockExpand(id, totalLines) for a fold block  *)
(* of the layout on screen; a state change renders again.                  *)
BlockExpand ==
  /\ pc = "rendered"
  /\ \E b \in FoldBlocks(props, lineInformation) :
       LET current == ExpandedCount(viewerState, b.id)
           toAdd == Min(LINES_PER_EXPAND, b.totalLines - current)
       IN  /\ Clicks(b.id) < MaxClicks
           /\ handled' = [name |-> "onBlockExpand", id |-> b.id,
                          totalLines |-> b.totalLines, result |-> FALSE,
                          clicks |-> WithCount(handled.clicks, b.id, Clicks(b.id) + 1),
                          shown |-> <<>>]
           /\ IF toAdd <= 0
                THEN UNCHANGED <<viewerState, pc>>
                ELSE /\ viewerState' =
                          [viewerState EXCEPT
                             !.expandedBlocksCount =
                                WithCount(@, b.id, current + toAdd)]
                     /\ pc' = "render"
  /\ UNCHANGED <<args, diffArray, index, closure, mainRows, lineInformation,
                 calls, returned, props, nodes>>

(* Variant of AnyExpanded that looks at expandedBlocks only.               *)
AnyExpandedBlocks(st) == Len(st.expandedBlocks) > 0

(* part_001 lines 144-147: some block is expanded.                         *)
AnyExpanded(st) ==
  \/ Len(st.expandedBlocks) > 0
  \/ Cardinality(DOMAIN st.expandedBlocksCount) > 0

(* part_001 lines 143-152: resetCodeBlocks and its return value.           *)
ResetCodeBlocks ==
  /\ pc = "rendered"
  /\ LET expanded == AnyExpanded(viewerState)
     IN  /\ handled' = [name |-> "resetCodeBlocks", id |-> NoNumber,
                        totalLines |-> NoNumber, result |-> expanded,
                        clicks |-> <<>>, shown |-> <<>>]
         /\ IF expanded
              THEN /\ viewerState' = [viewerState EXCEPT
                                        !.expandedBlocks = <<>>,
                                        !.expandedBlocksCount = <<>>]
                   /\ pc' = "render"
              ELSE UNCHANGED <<viewerState, pc>>
  /\ UNCHANGED <<args, diffArray, index, closure, mainRows, lineInformation,
                 calls, returned, props, nodes>>

(* The last two elements at most.                                          *)
LastTwo(arr) == IF Len(arr) <= 2 THEN arr ELSE SubSeq(arr, Len(arr) - 1, Len(arr))

(* part_001 lines 205-209, 1070 and 1148: a click on the collapse control  *)
(* of the title row or of the collapsed message calls toggleCollapse;      *)
(* handled.shown keeps what was on screen before each of the last two      *)
(* toggles in a row.                                                       *)
ClickToggle ==
  /\ pc = "rendered"
  /\ \E k \in DOMAIN nodes : nodes[k].kind \in {"title", "collapsed"}
  /\ viewerState' = [viewerState EXCEPT !.isCollapsed = ~@]
  /\ handled' = [name |-> "toggleCollapse", id |-> NoNumber,
                 totalLines |-> NoNumber, result |-> FALSE,
                 clicks |-> handled.clicks,
                 shown |-> LastTwo(Append(handled.shown, nodes))]
  /\ pc' = "render"
  /\ UNCHANGED <<args, diffArray, index, closure, mainRows, lineInformation,
                 calls, returned, props, nodes>>

NextFold ==
  \/ Render
  \/ Diff
  \/ ForEach
  \/ BackfillAndReturn
  \/ RenderDiff
  \/ BlockExpand
  \/ ResetCodeBlocks
  \/ ClickToggle

SpecFold == InitFold /\ [][NextFold]_vars

(* The returned value, once the call has returned.                         *)
Done == pc = "done"
diffLines == closure.diffLines

(* ======================================================================= *)
(*                          Properties of the result                       *)
(* ======================================================================= *)
Rows == 1..Len(lineInformation)

HasLeft(r) == lineInformation[r].left.lineNumber # NoNumber
HasRight(r) == lineInformation[r].right.lineNumber # NoNumber

(* The line numbers in row order, over the sides that have one.            *)
RECURSIVE NumbersOf(_)
NumbersOf(sides) ==
  IF sides = <<>> THEN <<>>
  ELSE (IF sides[1].lineNumber # NoNumber THEN <<sides[1].lineNumber>>
        ELSE <<>>)
       \o NumbersOf(Tail(sides))

LeftNumbers == NumbersOf([r \in Rows |-> lineInformation[r].left])
RightNumbers == NumbersOf([r \in Rows |-> lineInformation[r].right])

Range(seq) == {seq[k] : k \in 1..Len(seq)}

StrictlyIncreasing(seq) == \A k \in 1..(Len(seq) - 1) : seq[k] < seq[k + 1]

IsSameRow(row) == row.left.type = DEFAULT /\ row.right.type = DEFAULT

BackfillRan == Len(lineInformation) > mainRows

(* C1: completeness. With lineOffset 0, once the call has returned, the     *)
(* left line numbers over all rows are exactly 1..N, each once, and the     *)
(* right line numbers exactly 1..M, each once (N, M the numbers of lines of *)
(* the trimmed old / new text).                                             *)
C1_Completeness ==
  Done =>
    /\ Range(LeftNumbers) = 1..Len(oldLines)
    /\ Len(LeftNumbers) = Len(oldLines)
    /\ Range(RightNumbers) = 1..Len(newLines)
    /\ Len(RightNumbers) = Len(newLines)

(* Two-line texts for which the main pass left a line without a row, so     *)
(* that completeness rests on the backfill.                                 *)
C1_Witness ==
  /\ Done
  /\ Len(oldLines) = 2
  /\ Len(newLines) = 2
  /\ BackfillRan
  /\ mainRows > 0

(* C2: monotonicity. For any inputs and any lineOffset the left line        *)
(* numbers of the returned rows are strictly increasing in row order, and   *)
(* so are the right line numbers, backfilled rows included.                 *)
C2_Monotonic ==
  Done => StrictlyIncreasing(LeftNumbers) /\ StrictlyIncreasing(RightNumbers)

(* C3: displayed content is never substituted. With lineOffset 0 every row  *)
(* side that carries line number n shows the n-th line of its own text.     *)
C3_OriginalContent ==
  Done =>
    \A r \in Rows :
      /\ HasLeft(r) =>
           lineInformation[r].left.value =
             At(oldLines, lineInformation[r].left.lineNumber - 1)
      /\ HasRight(r) =>
           lineInformation[r].right.value =
             At(newLines, lineInformation[r].right.lineNumber - 1)

(* A row of two matched lines whose contents differ (the match is by        *)
(* equivalence), each side showing its own content.                         *)
C3_Witness ==
  /\ Done
  /\ \E r \in Rows :
       /\ IsSameRow(lineInformation[r])
       /\ HasLeft(r) /\ HasRight(r)
       /\ lineInformation[r].left.value # lineInformation[r].right.value
       /\ lineInformation[r].right.value # <<>>

(* C4: identity law. computeLineInformation(T, T) returns only SAME/SAME    *)
(* rows with equal left and right line numbers, one row per line of T       *)
(* (stated here for the texts T that are not empty after the trim).         *)
C4_Identity ==
  (Done /\ oldString = newString /\ trimRight(oldString) # <<>>) =>
    /\ Len(lineInformation) = Len(oldLines)
    /\ \A r \in Rows :
         /\ IsSameRow(lineInformation[r])
         /\ lineInformation[r].left.lineNumber
              = lineInformation[r].right.lineNumber

(* C5: pure insertion. computeLineInformation("", T) returns exactly M rows, *)
(* the k-th with an ADDED right side numbered k and a left side without     *)
(* line number or content (stated here for the texts T that are not empty   *)
(* after the trim).                                                         *)
C5_PureInsertion ==
  (Done /\ oldString = <<>> /\ trimRight(newString) # <<>>) =>
    /\ Len(lineInformation) = Len(newLines)
    /\ \A r \in Rows :
         /\ lineInformation[r].right.type = ADDED
         /\ lineInformation[r].right.lineNumber = r
         /\ lineInformation[r].left.lineNumber = NoNumber
         /\ lineInformation[r].left.value = Undefined

(* C6: pure deletion. computeLineInformation(T, "") returns exactly N rows,  *)
(* the k-th with a REMOVED left side numbered k and a right side without    *)
(* line number or content (stated here for the texts T that are not empty   *)
(* after the trim).                                                         *)
C6_PureDeletion ==
  (Done /\ newString = <<>> /\ trimRight(oldString) # <<>>) =>
    /\ Len(lineInformation) = Len(oldLines)
    /\ \A r \in Rows :
         /\ lineInformation[r].left.type = REMOVED
         /\ lineInformation[r].left.lineNumber = r
         /\ lineInformation[r].right.lineNumber = NoNumber
         /\ lineInformation[r].right.value = Undefined

(* C7: two empty or whitespace-only texts give an empty row sequence and an *)
(* empty changed-index list.                                                *)
C7_BothEmpty ==
  (Done /\ trimRight(oldString) = <<>> /\ trimRight(newString) = <<>>) =>
    lineInformation = <<>> /\ diffLines = <<>>

(* The rows with k added to every present line number.                     *)
ShiftSide(side, k) ==
  IF side.lineNumber = NoNumber THEN side
  ELSE [side EXCEPT !.lineNumber = @ + k]

ShiftRows(rows, k) ==
  [r \in 1..Len(rows) |->
     LineInformation(ShiftSide(rows[r].left, k), ShiftSide(rows[r].right, k))]

(* C8: offset propagation. The rows returned with lineOffset k are the rows *)
(* returned with lineOffset 0 with k added to every present line number     *)
(* (same number of rows, same kinds, same values); stated here for texts    *)
(* that are not empty after the trim.                                       *)
C8_OffsetPropagation ==
  (Done /\ trimRight(oldString) # <<>> /\ trimRight(newString) # <<>>) =>
    lineInformation =
      ShiftRows(computeLineInformation(oldString, newString, 0).lineInformation,
                linesOffset)

(* The 0-based positions of the rows that are not SAME/SAME, in order.      *)
RECURSIVE ChangedPositions(_, _)
ChangedPositions(rows, r) ==
  IF r > Len(rows) THEN <<>>
  ELSE (IF IsSameRow(rows[r]) THEN <<>> ELSE <<r - 1>>)
       \o ChangedPositions(rows, r + 1)

(* C9: change-index tracking. diffLines is exactly the increasing list of   *)
(* the 0-based positions of the rows that are not SAME/SAME (stated here    *)
(* for the calls whose backfill appended no row).                           *)
C9_ChangeIndex ==
  (Done /\ ~BackfillRan) => diffLines = ChangedPositions(lineInformation, 1)

(* C10: every row with both sides SAME carries two values that are          *)
(* equivalent under the matching policy (public_lineEqual).                 *)
C10_SameRowsEquivalent ==
  Done =>
    \A r \in Rows :
      (IsSameRow(lineInformation[r]) /\ HasLeft(r) /\ HasRight(r)) =>
        public_lineEqual(lineInformation[r].left.value,
                         lineInformation[r].right.value)

(* ----------------------------- edit script ----------------------------- *)
EditScript == EditScriptOf(oldLines, newLines)

Ops == 1..Len(EditScript)

(* First and last operation of the maximal run of one kind around p.       *)
RunStart(p) ==
  CHOOSE b \in 1..p :
    /\ \A x \in b..p : EditScript[x].kind = EditScript[p].kind
    /\ b = 1 \/ EditScript[b - 1].kind # EditScript[p].kind

RunEnd(p) ==
  CHOOSE e \in p..Len(EditScript) :
    /\ \A x \in p..e : EditScript[x].kind = EditScript[p].kind
    /\ e = Len(EditScript) \/ EditScript[e + 1].kind # EditScript[p].kind

(* Delete p is the k-th of its run and insert q the k-th of the run of     *)
(* insertions that follows it immediately.                                 *)
PairedOps(p, q) ==
  /\ EditScript[p].kind = "delete"
  /\ EditScript[q].kind = "insert"
  /\ RunEnd(p) + 1 = RunStart(q)
  /\ p - RunStart(p) = q - RunStart(q)

Unpaired(p) == \A q \in Ops : ~PairedOps(p, q) /\ ~PairedOps(q, p)

(* The rows that show a line consumed by the run of deletions of p or by   *)
(* the run of insertions after it.                                         *)
RowsOfRun(p) ==
  LET e == RunEnd(p)
      dels == {EditScript[x].i : x \in RunStart(p)..e}
      inss == IF e < Len(EditScript) /\ EditScript[e + 1].kind = "insert"
                THEN {EditScript[x].j : x \in (e + 1)..RunEnd(e + 1)}
                ELSE {}
  IN  {r \in Rows : \/ lineInformation[r].left.lineNumber \in dels
                    \/ lineInformation[r].right.lineNumber \in inss}

(* Neither text has an empty line (an empty text is one empty line).       *)
NoEmptyLines ==
  /\ \A k \in 1..Len(oldLines) : oldLines[k] # <<>>
  /\ \A k \in 1..Len(newLines) : newLines[k] # <<>>

(* C11: modification pairing. Once the call has returned, for every run of  *)
(* d deletions immediately followed by a run of a insertions in the edit    *)
(* script, the k-th deleted and the k-th inserted line are in one row with  *)
(* REMOVED on the left and ADDED on the right, and the lines of the two     *)
(* runs take max(d, a) rows (stated here for the texts without an empty     *)
(* line).                                                                   *)
C11_ModificationPairing ==
  (Done /\ NoEmptyLines) =>
    /\ \A p, q \in Ops :
         PairedOps(p, q) =>
           \E r \in Rows :
             /\ lineInformation[r].left.lineNumber = EditScript[p].i
             /\ lineInformation[r].left.type = REMOVED
             /\ lineInformation[r].right.lineNumber = EditScript[q].j
             /\ lineInformation[r].right.type = ADDED
    /\ \A p \in Ops :
         (\E q \in Ops : PairedOps(p, q)) =>
           Cardinality(RowsOfRun(p)) =
             Max(RunEnd(p) - RunStart(p) + 1,
                 RunEnd(RunEnd(p) + 1) - RunEnd(p))

(* Row r has the given line numbers and types (NoNumber for an absent side). *)
RowIs(r, leftNumber, leftType, rightNumber, rightType) ==
  /\ lineInformation[r].left.lineNumber = leftNumber
  /\ leftNumber # NoNumber => lineInformation[r].left.type = leftType
  /\ lineInformation[r].right.lineNumber = rightNumber
  /\ rightNumber # NoNumber => lineInformation[r].right.type = rightType

(* C12: tie-break scenario. For pairwise non-equivalent lines A, B, C, X,   *)
(* the call on old = [A, B, C] and new = [X, A, C] returns exactly 4 rows:  *)
(* B REMOVED (left 2, no right side), X ADDED (right 1, no left side),      *)
(* A SAME (left 1 / right 2) and C SAME (left 3 / right 3).                 *)
C12_TieBreakScenario ==
  (Done /\ Len(oldLines) = 3 /\ Len(newLines) = 3) =>
    /\ Len(lineInformation) = 4
    /\ \E r \in Rows : RowIs(r, 2, REMOVED, NoNumber, NoType)
    /\ \E r \in Rows : RowIs(r, NoNumber, NoType, 1, ADDED)
    /\ \E r \in Rows : RowIs(r, 1, DEFAULT, 2, DEFAULT)
    /\ \E r \in Rows : RowIs(r, 3, DEFAULT, 3, DEFAULT)

(* The two texts have the same lines up to trailing whitespace of a line.  *)
SameUpToTrailingWhitespace(a, b) ==
  /\ Len(split(a)) = Len(split(b))
  /\ \A k \in 1..Len(split(a)) : trimRight(split(a)[k]) = trimRight(split(b)[k])

(* C13: whitespace-insensitive matching. Two texts that differ only by      *)
(* trailing whitespace on some lines yield only SAME/SAME rows and an empty *)
(* changed-index list, and each side of a row shows its own original line   *)
(* (stated here for two texts that do differ and are not whitespace only).  *)
C13_TrailingWhitespaceMatches ==
  (Done /\ oldString # newString /\ trimRight(oldString) # <<>>
        /\ SameUpToTrailingWhitespace(oldString, newString)) =>
    /\ \A r \in Rows :
         /\ IsSameRow(lineInformation[r])
         /\ HasLeft(r) /\ HasRight(r)
         /\ lineInformation[r].left.value =
              At(oldLines, lineInformation[r].left.lineNumber - 1)
         /\ lineInformation[r].right.value =
              At(newLines, lineInformation[r].right.lineNumber - 1)
    /\ diffLines = <<>>

(* C19: each operation of the edit script is a row numbered by the lines it *)
(* consumes: a match of old line i with new line j a SAME/SAME row i / j,   *)
(* an unpaired delete of old line i a row with REMOVED left i and no right  *)
(* line number, an unpaired insert of new line j a row with ADDED right j   *)
(* and no left line number; empty lines included (stated here for the texts *)
(* that are not empty after the trim).                                      *)
C19_OperationsAreRows ==
  (Done /\ trimRight(oldString) # <<>> /\ trimRight(newString) # <<>>) =>
    \A p \in Ops :
      LET op == EditScript[p]
      IN  /\ op.kind = "match" =>
                \E r \in Rows : RowIs(r, op.i, DEFAULT, op.j, DEFAULT)
          /\ (op.kind = "delete" /\ Unpaired(p)) =>
                \E r \in Rows : RowIs(r, op.i, REMOVED, NoNumber, NoType)
          /\ (op.kind = "insert" /\ Unpaired(p)) =>
                \E r \in Rows : RowIs(r, NoNumber, NoType, op.j, ADDED)

(* Every step of the backtracking loop from a position other than (0, 0)   *)
(* is an operation, and moves to a position with a smaller i + j.          *)
BacktrackingDecreases ==
  LET dp == LcsTable(oldLines, newLines)
  IN  \A i \in 0..Len(oldLines), j \in 0..Len(newLines) :
        (i > 0 \/ j > 0) =>
          LET op == BacktrackStep(oldLines, newLines, dp, i, j)
          IN  /\ op.kind # "break"
              /\ op.i >= 0 /\ op.j >= 0
              /\ op.i + op.j < i + j

(* C14: totality. For any two strings the call never throws (the lookup of  *)
(* a paired insert never reads row 0 of an empty result), every step of the *)
(* backtracking loop strictly decreases i + j, the iteration over the       *)
(* chunks stays within diffArray until the call returns, and what is        *)
(* returned is a sequence of rows (the loop is examined, for every position *)
(* of the two texts, when the call is made).                                *)
C14_Totality ==
  /\ pc # "threw"
  /\ ~closure.threw
  /\ pc = "start" => BacktrackingDecreases
  /\ pc = "forEach" => index <= Len(diffArray)
  /\ Done => /\ index = Len(diffArray)
             /\ \A r \in Rows : HasLeft(r) \/ HasRight(r)

(* A returned call in which a removed chunk was followed by an added chunk  *)
(* that constructLines turns into no line, so that a lookup of the paired   *)
(* insert would have had no row to read.                                    *)
C14_Witness ==
  /\ Done
  /\ \E k \in 1..(Len(diffArray) - 1) :
       /\ diffArray[k].removed
       /\ diffArray[k + 1].added
       /\ constructLines(diffArray[k + 1].value) = <<>>

(* Everything of text t after its first n characters is whitespace.        *)
WhitespaceFrom(t, n) == \A k \in (n + 1)..Len(t) : IsWhitespace(t[k])

(* The returned value is the one of the call on (old, new).                *)
SameOutputAs(old, new) ==
  LET res == computeLineInformation(old, new, linesOffset)
  IN  res.lineInformation = lineInformation /\ res.diffLines = diffLines

(* The lines of text t that have a line with other than whitespace after   *)
(* them.                                                                   *)
InteriorLines(t) ==
  {k \in 1..Len(split(t)) :
     \E m \in (k + 1)..Len(split(t)) : ~public_isBlankLine(split(t)[m])}

(* C16: trailing-trim preprocessing. The returned value of a call on a text *)
(* that is some text U followed by whitespace or newline characters only is *)
(* the one of the call on U, for either argument; and every line with a     *)
(* non-blank line after it, blank or not, is shown with its own line number *)
(* and content.                                                             *)
C16_TrailingTrim ==
  Done =>
    /\ \A n \in 0..(Len(oldString) - 1) :
         WhitespaceFrom(oldString, n) =>
           SameOutputAs(SubSeq(oldString, 1, n), newString)
    /\ \A n \in 0..(Len(newString) - 1) :
         WhitespaceFrom(newString, n) =>
           SameOutputAs(oldString, SubSeq(newString, 1, n))
    /\ \A k \in InteriorLines(oldString) :
         \E r \in Rows : /\ lineInformation[r].left.lineNumber = k
                         /\ lineInformation[r].left.value = split(oldString)[k]
    /\ \A k \in InteriorLines(newString) :
         \E r \in Rows : /\ lineInformation[r].right.lineNumber = k
                         /\ lineInformation[r].right.value = split(newString)[k]

(* The old text ends with a newline and a space after its last line, and    *)
(* the new text has a blank line before its last line.                      *)
C16_Witness ==
  /\ Done
  /\ trimRight(oldString) # <<>>
  /\ Len(oldString) >= Len(trimRight(oldString)) + 2
  /\ \E k \in InteriorLines(newString) : public_isBlankLine(split(newString)[k])
  /\ lineInformation # <<>>

(* Length of a longest common subsequence of two line sequences under      *)
(* public_lineEqual, by the textbook recurrence.                           *)
RECURSIVE LcsLength(_, _)
LcsLength(a, b) ==
  IF a = <<>> \/ b = <<>> THEN 0
  ELSE LET a1 == SubSeq(a, 1, Len(a) - 1)
           b1 == SubSeq(b, 1, Len(b) - 1)
       IN  IF public_lineEqual(a[Len(a)], b[Len(b)])
             THEN LcsLength(a1, b1) + 1
             ELSE Max(LcsLength(a1, b), LcsLength(a, b1))

Matches == {p \in Ops : EditScript[p].kind = "match"}

(* C18: LCS optimality. The number of match operations of the edit script   *)
(* equals the length of a longest common subsequence of the old and the new *)
(* lines under the equivalence predicate.                                   *)
C18_LcsOptimal ==
  Done => Cardinality(Matches) = LcsLength(oldLines, newLines)

Prefix(seq, n) == SubSeq(seq, 1, n)

(* The operation the loop takes at position (i, j), and the one after it.  *)
StepAt(i, j) ==
  BacktrackStep(oldLines, newLines, LcsTable(oldLines, newLines), i, j)

(* The operation at (i, j) is of the given kind and the next one is the    *)
(* match of the two lines then current.                                    *)
ThenMatch(i, j, kind) ==
  /\ StepAt(i, j).kind = kind
  /\ StepAt(StepAt(i, j).i, StepAt(i, j).j).kind = "match"

(* Neither look-ahead applies at (i, j).                                   *)
NoLookAhead(i, j) ==
  /\ ~(i >= 2 /\ public_lineEqual(oldLines[i - 1], newLines[j]))
  /\ ~(j >= 2 /\ public_lineEqual(oldLines[i], newLines[j - 1]))

(* The lines consumed on one side, in the order of the edit script.        *)
RECURSIVE Consumed(_, _)
Consumed(script, side) ==
  IF script = <<>> THEN <<>>
  ELSE (IF script[1].kind \in {"match", side}
          THEN <<IF side = "delete" THEN script[1].i ELSE script[1].j>>
          ELSE <<>>)
       \o Consumed(Tail(script), side)

(* C20: backtracking tie-break order. At a position (i, j), i, j > 0, whose *)
(* current lines are not equivalent: if old line i-1 is equivalent to new   *)
(* line j the next two operations are delete(old i), match(old i-1, new j); *)
(* otherwise if old line i is equivalent to new line j-1 they are           *)
(* insert(new j), match(old i, new j-1); otherwise insert when the LCS      *)
(* length of (i, j-1) is at least that of (i-1, j), and delete otherwise.   *)
(* The edit script consumes the old lines 1..N, each once and in order, by  *)
(* match or delete, and the new lines 1..M by match or insert (examined     *)
(* when public_diffLinesInOrder has returned).                              *)
C20_TieBreakOrder ==
  (pc = "forEach" /\ index = 0) =>
  /\ \A i \in 1..Len(oldLines), j \in 1..Len(newLines) :
       ~public_lineEqual(oldLines[i], newLines[j]) =>
         IF i >= 2 /\ public_lineEqual(oldLines[i - 1], newLines[j])
           THEN /\ ThenMatch(i, j, "delete")
                /\ StepAt(i, j).i = i - 1 /\ StepAt(i, j).j = j
         ELSE IF j >= 2 /\ public_lineEqual(oldLines[i], newLines[j - 1])
           THEN /\ ThenMatch(i, j, "insert")
                /\ StepAt(i, j).i = i /\ StepAt(i, j).j = j - 1
         ELSE IF LcsLength(Prefix(oldLines, i), Prefix(newLines, j - 1))
                   >= LcsLength(Prefix(oldLines, i - 1), Prefix(newLines, j))
           THEN StepAt(i, j).kind = "insert"
           ELSE StepAt(i, j).kind = "delete"
  /\ Consumed(EditScript, "delete") = [k \in 1..Len(oldLines) |-> k]
  /\ Consumed(EditScript, "insert") = [k \in 1..Len(newLines) |-> k]

(* A returned call whose backtracking took an insert on equal scores and,   *)
(* at another position, a delete because the line before matched.           *)
C20_Witness ==
  /\ Done
  /\ \E p \in Ops :
       LET op == EditScript[p]
       IN  /\ op.kind = "insert" /\ op.i > 0
           /\ ~public_lineEqual(oldLines[op.i], newLines[op.j])
           /\ NoLookAhead(op.i, op.j)
           /\ LcsLength(Prefix(oldLines, op.i), Prefix(newLines, op.j - 1))
                = LcsLength(Prefix(oldLines, op.i - 1), Prefix(newLines, op.j))
  /\ \E p \in Ops :
       LET op == EditScript[p]
       IN  /\ op.kind = "delete" /\ op.j > 0 /\ op.i >= 2
           /\ ~public_lineEqual(oldLines[op.i], newLines[op.j])
           /\ public_lineEqual(oldLines[op.i - 1], newLines[op.j])

(* ------------------------------ several calls -------------------------- *)
SameArguments(x, y) ==
  /\ x.oldString = y.oldString
  /\ x.newString = y.newString
  /\ x.linesOffset = y.linesOffset

(* C15: determinism, no hidden state. Any two returned calls with the same  *)
(* (oldString, newString, linesOffset), whatever calls came before or       *)
(* between them, returned the same lineInformation and diffLines; and each  *)
(* call starts its loop over the chunks with fresh line-number cursors,     *)
(* counter, changed-index list and ignore list and with no rows.            *)
C15_Deterministic ==
  /\ \A x, y \in returned : SameArguments(x, y) => x = y
  /\ (pc = "forEach" /\ index = 0) =>
       closure = InitialClosure(linesOffset) /\ lineInformation = <<>>

(* The third call has returned, two of the three calls had the same         *)
(* arguments, and one call paired a removed with an added line (which puts  *)
(* an entry on the ignore list).                                            *)
C15_Witness ==
  /\ Done
  /\ calls = 3
  /\ Cardinality(returned) = 2
  /\ \E x \in returned :
       /\ x.lineInformation # <<>>
       /\ x.lineInformation[1].left.type = REMOVED
       /\ x.lineInformation[1].right.type = ADDED
  /\ \E x \in returned : x.diffLines = <<>> /\ x.lineInformation # <<>>

(* ------------------------------ invalid props -------------------------- *)
(* C17: invalid argument. A render with an oldValue or newValue that is no  *)
(* string throws at once: no call of computeLineInformation is made for it  *)
(* (a call only ever runs on two strings), the props are left as they are   *)
(* (no coercion), and the component state and every earlier result are      *)
(* unchanged by the failed render.                                          *)
C17_InvalidArgument ==
  /\ [](pc \in {"start", "forEach", "done", "threw"} =>
          oldValueType = "string" /\ newValueType = "string")
  /\ [][(pc = "render" /\ (oldValueType # "string" \/ newValueType # "string"))
          => /\ pc' = "renderThrew"
             /\ UNCHANGED <<args, viewerState, diffArray, index, closure,
                            mainRows, lineInformation, calls, returned>>]_vars
  /\ [][pc = "renderThrew" => pc' = "renderThrew"]_vars

(* A render that failed on a newValue that is no string (oldValue being     *)
(* one), in a viewer that had rendered before and was collapsed.            *)
C17_Witness ==
  /\ pc = "renderThrew"
  /\ oldValueType = "string"
  /\ newValueType # "string"
  /\ viewerState.isCollapsed
  /\ returned # {}

(* ------------------------------ backfill, row shape -------------------- *)
(* C21: the backfill is not a primary code path. With lineOffset 0 the main *)
(* pass already gives every old and every new line a row, so the backfill   *)
(* appends no row (stated here for texts that are not empty after the       *)
(* trim).                                                                   *)
C21_BackfillAppendsNothing ==
  (Done /\ trimRight(oldString) # <<>> /\ trimRight(newString) # <<>>) =>
    ~BackfillRan

(* C22: row shape. Every returned row has a line number on at least one     *)
(* side; a side without one faces an ADDED or REMOVED side; a row with both *)
(* line numbers is SAME/SAME or REMOVED/ADDED; a left side is never ADDED, a *)
(* right side never REMOVED; in a REMOVED/ADDED row both sides have a line  *)
(* number and a value.                                                      *)
C22_RowShape ==
  Done =>
    \A r \in Rows :
      LET left == lineInformation[r].left
          right == lineInformation[r].right
      IN  /\ HasLeft(r) \/ HasRight(r)
          /\ ~HasLeft(r) => right.type \in {ADDED, REMOVED}
          /\ ~HasRight(r) => left.type \in {ADDED, REMOVED}
          /\ (HasLeft(r) /\ HasRight(r)) =>
               \/ left.type = DEFAULT /\ right.type = DEFAULT
               \/ left.type = REMOVED /\ right.type = ADDED
          /\ left.type # ADDED
          /\ right.type # REMOVED
          /\ (left.type = REMOVED /\ right.type = ADDED) =>
               /\ HasLeft(r) /\ HasRight(r)
               /\ left.value # Undefined /\ right.value # Undefined

(* A returned call with a REMOVED/ADDED row, a row without a left side, a   *)
(* row without a right side and a SAME/SAME row.                            *)
C22_Witness ==
  /\ Done
  /\ \E r \in Rows : /\ lineInformation[r].left.type = REMOVED
                     /\ lineInformation[r].right.type = ADDED
  /\ \E r \in Rows : ~HasLeft(r)
  /\ \E r \in Rows : ~HasRight(r)
  /\ \E r \in Rows : IsSameRow(lineInformation[r]) /\ HasLeft(r)

(* ------------------------------ fold handlers -------------------------- *)
(* The fold blocks of the layout on screen and the count of a block.       *)
Blocks == FoldBlocks(props, lineInformation)
CountOf(st, id) ==
  IF id \in DOMAIN st.expandedBlocksCount THEN st.expandedBlocksCount[id] ELSE 0

(* A step of the handler of that name.                                     *)
Handles(name) == pc = "rendered" /\ handled'.name = name

(* C23: progressive expand. A call onBlockExpand(id, totalLines) on a      *)
(* block whose count c is below totalLines sets the count to               *)
(* c + min(10, totalLines - c); a call when c >= totalLines changes no     *)
(* state; a call leaves the counts of all other blocks, expandedBlocks and *)
(* isCollapsed unchanged; and after any sequence of expand calls           *)
(* 0 <= expandedBlocksCount[id] <= totalLines holds for every block.       *)
C23_ProgressiveExpand ==
  /\ [][Handles("onBlockExpand") =>
          LET id == handled'.id
              totalLines == handled'.totalLines
              c == CountOf(viewerState, id)
          IN  /\ c < totalLines =>
                   CountOf(viewerState', id) =
                     (IF totalLines - c < 10 THEN totalLines ELSE c + 10)
              /\ c >= totalLines =>
                   UNCHANGED <<viewerState, nodes, props, pc, args>>
              /\ \A other \in (DOMAIN viewerState.expandedBlocksCount
                                 \cup DOMAIN viewerState'.expandedBlocksCount)
                              \ {id} :
                   /\ other \in DOMAIN viewerState.expandedBlocksCount
                   /\ other \in DOMAIN viewerState'.expandedBlocksCount
                   /\ viewerState'.expandedBlocksCount[other]
                        = viewerState.expandedBlocksCount[other]
              /\ viewerState'.expandedBlocks = viewerState.expandedBlocks
              /\ viewerState'.isCollapsed = viewerState.isCollapsed]_vars
  /\ [](pc = "rendered" =>
          /\ \A b \in Blocks :
               CountOf(viewerState, b.id) >= 0
               /\ CountOf(viewerState, b.id) <= b.totalLines
          /\ DOMAIN viewerState.expandedBlocksCount \subseteq {b.id : b \in Blocks})

(* Two blocks on screen, one of more than 10 rows that has been clicked    *)
(* until the call changed nothing, the other clicked once.                 *)
C23_Witness ==
  /\ pc = "rendered"
  /\ handled.name = "onBlockExpand"
  /\ handled.totalLines > 10
  /\ CountOf(viewerState, handled.id) = handled.totalLines
  /\ Clicks(handled.id) = 3
  /\ \E b \in Blocks : b.id # handled.id /\ CountOf(viewerState, b.id) = b.totalLines

(* C25: resetCodeBlocks returns true exactly when some block is expanded   *)
(* (expandedBlocks non-empty or expandedBlocksCount has a key), and then   *)
(* both become empty, so that every fold block renders fully folded again; *)
(* otherwise it returns false and changes no state; isCollapsed is         *)
(* unchanged in both cases.                                                *)
C25_Reset ==
  /\ [][Handles("resetCodeBlocks") =>
          LET expanded ==
                \/ viewerState.expandedBlocks # <<>>
                \/ \E id \in DOMAIN viewerState.expandedBlocksCount : TRUE
          IN  /\ handled'.result = expanded
              /\ expanded =>
                   /\ viewerState'.expandedBlocks = <<>>
                   /\ DOMAIN viewerState'.expandedBlocksCount = {}
              /\ ~expanded => UNCHANGED <<viewerState, nodes, props, pc, args>>
              /\ viewerState'.isCollapsed = viewerState.isCollapsed]_vars
  /\ [](pc = "rendered" /\ handled.name = "resetCodeBlocks"
          /\ ~viewerState.isCollapsed =>
          /\ \A b \in Blocks :
               \E k \in DOMAIN nodes :
                 /\ nodes[k].kind = "fold"
                 /\ nodes[k].blockNumber = b.id
                 /\ nodes[k].remainingNum = b.totalLines
          /\ \A k \in DOMAIN nodes :
               (nodes[k].kind = "row" /\ props.commentRowLineNumber # NoNumber) =>
                 isInCommentRange(props, lineInformation, nodes[k].index, TRUE))

(* A reset that returned true, rendered again, on a layout with a block.   *)
C25_Witness ==
  /\ pc = "rendered"
  /\ handled.name = "resetCodeBlocks"
  /\ handled.result
  /\ ~viewerState.isCollapsed
  /\ Blocks # {}

(* ------------------------------ expanding a block ---------------------- *)
(* The rows of a block are those from its id on.                           *)
BlockRows(b) == b.id..(b.id + b.totalLines - 1)
RowNodes(i) == {k \in DOMAIN nodes : nodes[k].kind = "row" /\ nodes[k].index = i}
Indicators(b) ==
  {k \in DOMAIN nodes : nodes[k].kind = "fold" /\ nodes[k].blockNumber = b.id}

(* All rows of the block are on screen, and no indicator for it.           *)
FullyShown(b) ==
  /\ \A i \in BlockRows(b) : Cardinality(RowNodes(i)) = 1
  /\ Indicators(b) = {}

(* ceil(T / 10)                                                            *)
ClicksNeeded(b) == (b.totalLines + 9) \div 10

(* Counts change in handlers only, and a count that has reached the size   *)
(* of its block keeps it in every step other than a resetCodeBlocks.       *)
StaysExpanded ==
  /\ [][pc # "rendered" => viewerState' = viewerState]_vars
  /\ [][(pc = "rendered" /\ ~Handles("resetCodeBlocks")) =>
          \A b \in Blocks :
            CountOf(viewerState, b.id) >= b.totalLines =>
              CountOf(viewerState', b.id) >= b.totalLines]_vars

(* C24 as stated: expand liveness. For a fold block of T rows, after       *)
(* ceil(T/10) clicks the block is fully expanded (all T rows rendered, no  *)
(* indicator for it) and stays so until resetCodeBlocks is called; while   *)
(* it is not fully expanded an indicator for it is always rendered.        *)
C24_ExpandLiveness_AsStated ==
  /\ [](pc = "rendered" =>
          \A b \in Blocks :
            /\ Clicks(b.id) >= ClicksNeeded(b) => FullyShown(b)
            /\ CountOf(viewerState, b.id) < b.totalLines => Indicators(b) # {})
  /\ StaysExpanded

(* C24, amended: the same while the viewer is not collapsed. For a fold    *)
(* block of T rows, after ceil(T/10) clicks the count of the block is T    *)
(* and stays T until resetCodeBlocks is called; whenever the viewer is not *)
(* collapsed, a block with count T has all its T rows and no indicator on  *)
(* screen, and a block with a smaller count has an indicator on screen.    *)
C24_ExpandLiveness ==
  /\ [](pc = "rendered" =>
          \A b \in Blocks :
            /\ Clicks(b.id) >= ClicksNeeded(b) =>
                 CountOf(viewerState, b.id) = b.totalLines
            /\ ~viewerState.isCollapsed =>
                 /\ CountOf(viewerState, b.id) >= b.totalLines => FullyShown(b)
                 /\ CountOf(viewerState, b.id) < b.totalLines =>
                      Cardinality(Indicators(b)) = 1)
  /\ StaysExpanded

(* A block of more than 10 rows, fully on screen after two clicks, and     *)
(* still so after the viewer was collapsed and opened again.               *)
C24_Witness ==
  /\ pc = "rendered"
  /\ ~viewerState.isCollapsed
  /\ handled.name = "toggleCollapse"
  /\ Len(handled.shown) = 2
  /\ \E b \in Blocks :
       /\ b.totalLines > 10
       /\ Clicks(b.id) = 2
       /\ FullyShown(b)

(* ------------------------------ collapse -------------------------------- *)
(* C26: toggleCollapse flips isCollapsed and leaves expandedBlocks and     *)
(* expandedBlocksCount unchanged, so that two toggles restore exactly the  *)
(* rows rendered before; while isCollapsed is true no diff row, no fold    *)
(* indicator and no comment row is rendered, only the title row and the    *)
(* collapsed message.                                                      *)
C26_ToggleCollapse ==
  /\ [][Handles("toggleCollapse") =>
          /\ viewerState'.isCollapsed = ~viewerState.isCollapsed
          /\ viewerState'.expandedBlocks = viewerState.expandedBlocks
          /\ viewerState'.expandedBlocksCount = viewerState.expandedBlocksCount]_vars
  /\ [](pc = "rendered" =>
          /\ (handled.name = "toggleCollapse" /\ Len(handled.shown) = 2) =>
               nodes = handled.shown[1]
          /\ viewerState.isCollapsed =>
               /\ \A k \in DOMAIN nodes : nodes[k].kind \in {"title", "collapsed"}
               /\ Cardinality({k \in DOMAIN nodes : nodes[k].kind = "collapsed"}) = 1
               /\ Cardinality({k \in DOMAIN nodes : nodes[k].kind = "title"})
                    = (IF props.title THEN 1 ELSE 0))

(* A viewer with a partly expanded block, rows and a comment row on screen *)
(* that was collapsed and opened again.                                    *)
C26_Witness ==
  /\ pc = "rendered"
  /\ handled.name = "toggleCollapse"
  /\ Len(handled.shown) = 2
  /\ ~viewerState.isCollapsed
  /\ \E k \in DOMAIN handled.shown[2] : handled.shown[2][k].kind = "collapsed"
  /\ \E k \in DOMAIN nodes : nodes[k].kind = "comment"
  /\ \E k \in DOMAIN nodes : nodes[k].kind = "fold" /\ nodes[k].remainingNum < nodes[k].totalLines

(* ------------------------------ fold conservation ----------------------- *)
(* The rows on screen in screen order, and the rows of the comment range.  *)
RowsShown == SelectSeq(nodes, LAMBDA n : n.kind = "row")
InRangeRows == CommentRangeIndices(props, lineInformation)
OutOfRangeRows == (0..(Len(lineInformation) - 1)) \ InRangeRows

(* A fold block is a maximal run of rows outside the comment range: it     *)
(* starts at a row whose predecessor is not outside, and ends at the first *)
(* row from there on whose successor is not outside.                       *)
RunsOf(outside) ==
  {[id |-> a,
    totalLines |->
      Minimum({b \in outside : b >= a /\ (b + 1) \notin outside}) - a + 1] :
     a \in {i \in outside : (i - 1) \notin outside}}

MaximalRuns == RunsOf(OutOfRangeRows)

RowsOfBlockShown(b) == {i \in BlockRows(b) : RowNodes(i) # {}}

(* C27: fold conservation. When commentRowLineNumber is set, every row of  *)
(* the comment range is rendered exactly once in every expansion state,    *)
(* and for each fold block (maximal run of rows outside the range) with T  *)
(* rows and count c: c = 0 renders only one indicator reporting T;         *)
(* 0 < c < T renders exactly c rows of the block and one indicator         *)
(* reporting T - c; c >= T renders all T rows and no indicator. No row is  *)
(* rendered twice and the rendered rows keep their diff order.             *)
C27_FoldConservation ==
  (pc = "rendered" /\ props.commentRowLineNumber # NoNumber
     /\ ~viewerState.isCollapsed) =>
    LET runs == MaximalRuns
    IN
    /\ Blocks = runs
    /\ \A i \in InRangeRows : Cardinality(RowNodes(i)) = 1
    /\ \A b \in runs :
         LET T == b.totalLines
             c == CountOf(viewerState, b.id)
             reports == {nodes[k].remainingNum : k \in Indicators(b)}
         IN  /\ c = 0 =>
                  /\ RowsOfBlockShown(b) = {}
                  /\ Cardinality(Indicators(b)) = 1 /\ reports = {T}
             /\ (0 < c /\ c < T) =>
                  /\ Cardinality(RowsOfBlockShown(b)) = c
                  /\ Cardinality(Indicators(b)) = 1 /\ reports = {T - c}
             /\ c >= T =>
                  /\ RowsOfBlockShown(b) = BlockRows(b)
                  /\ Indicators(b) = {}
    /\ \A k \in DOMAIN nodes :
         nodes[k].kind = "fold" => \E b \in runs : k \in Indicators(b)
    /\ \A m, n \in DOMAIN RowsShown :
         m < n => RowsShown[m].index < RowsShown[n].index

(* A layout with a partly expanded block above the comment range and an    *)
(* expanded block below it.                                                *)
C27_Witness ==
  /\ pc = "rendered"
  /\ props.commentRowLineNumber # NoNumber
  /\ ~viewerState.isCollapsed
  /\ \E b, d \in MaximalRuns :
       /\ b.id < d.id
       /\ CountOf(viewerState, b.id) = 10 /\ b.totalLines > 10
       /\ CountOf(viewerState, d.id) = d.totalLines
       /\ \E i \in InRangeRows : b.id < i /\ i < d.id

(* ------------------------------ fold direction -------------------------- *)
(* The block lies above the comment range: the row after its last row is   *)
(* in the range.                                                           *)
AboveRange(b) == (b.id + b.totalLines) \in InRangeRows

(* What the indicator of a block reports for hidden rows first..last.      *)
ReportsHidden(k, first, last) ==
  /\ nodes[k].leftBlockLineNumber = lineInformation[first + 1].left.lineNumber
  /\ nodes[k].rightBlockLineNumber =
       (IF HasRight(last + 1) THEN lineInformation[last + 1].right.lineNumber
        ELSE lineInformation[last + 1].left.lineNumber)

CommentCells == {k \in DOMAIN nodes : nodes[k].kind = "row" /\ nodes[k].comment}
InRangeNodes ==
  {k \in DOMAIN nodes : nodes[k].kind = "row" /\ nodes[k].index \in InRangeRows}

(* C29: split-view comment cell. With commentRow and commentRowLineNumber  *)
(* set and at least one row in the comment range, exactly one rendered row *)
(* contains the comment cell, namely the first row of the range; when      *)
(* commentRowEndLineNumber is set as well, the rowSpan of the cell is the  *)
(* number of table rows rendered from the first through the last row of    *)
(* the range, which form one contiguous run on screen.                     *)
C29_SplitCommentCell ==
  (pc = "rendered" /\ props.splitView /\ props.commentRow
     /\ props.commentRowLineNumber # NoNumber /\ ~viewerState.isCollapsed
     /\ InRangeRows # {}) =>
    /\ Cardinality(CommentCells) = 1
    /\ \A k \in CommentCells :
         /\ nodes[k].index = Minimum(InRangeRows)
         /\ props.commentRowEndLineNumber # NoNumber =>
              /\ nodes[k].rowSpan = Maximum(InRangeNodes) - Minimum(InRangeNodes) + 1
              /\ \A m \in Minimum(InRangeNodes)..Maximum(InRangeNodes) :
                   m \in InRangeNodes

(* The positions on screen of the comment box rows.                        *)
CommentRows == {k \in DOMAIN nodes : nodes[k].kind = "comment"}

(* The diff rows whose right side has line number n.                       *)
RowsWithRight(n) ==
  {i \in 0..(Len(lineInformation) - 1) : lineInformation[i + 1].right.lineNumber = n}

====
